---- MODULE Spec2Model ----
(***************************************************************************)
(* Mini search engine (searchEngine.c, searchCLI.c): a 26-way trie of      *)
(* normalized words with per-document occurrence lists, a chained hash     *)
(* table from word to trie node, and a document list.                      *)
(*                                                                         *)
(* Strings are sequences of ASCII codes (a C string without its 0 byte).   *)
(* A pointer to a TrieNode is the node's index in `nodes` (allocation      *)
(* order); NULL is 0.  A linked list is the sequence of its elements, head *)
(* first.                                                                  *)
(***************************************************************************)
EXTENDS Integers, Sequences, FiniteSets, TLC

\* ------------------------------------------------------------ constants

ALPHABET_SIZE == 26
HASH_SIZE == 1000
MAX_WORD_LEN == 100
\* the size of PrefixResults.words and the bound tested by collect_prefix_words
PREFIX_CAP == 100

NULL == 0

\* ------------------------------------------------------------ bounds

\* length of the strings given to normalize_word alone
MaxLen == 3
\* documents indexed in one run of the engine
MaxDocs == 2
\* query words of one multi-keyword search
MaxKeywords == 2

\* ------------------------------------------------------------ characters

\* isalpha in the "C" locale
isalpha(c) == (c >= 65 /\ c <= 90) \/ (c >= 97 /\ c <= 122)

tolower(c) == IF c >= 65 /\ c <= 90 THEN c + 32 ELSE c

\* the delimiter string " \t\n\r.,;:!?\"'()[]{}" given to strtok
Delims == {32, 9, 10, 13, 46, 44, 59, 58, 33, 63, 34, 39, 40, 41, 91, 93, 123, 125}

Min(a, b) == IF a < b THEN a ELSE b

\* strncpy(dst, src, n) followed by dst[n] = '\0': the first n characters
strncpy(src, n) == SubSeq(src, 1, Min(Len(src), n))

\* normalize_word keeping the case of the letters
normalize_word_KeepCase(word) == SelectSeq(word, isalpha)

\* normalize_word: keeps the alphabetic characters, lowercased, in order
normalize_word(word) ==
    LET letters == SelectSeq(word, isalpha)
    IN [i \in 1..Len(letters) |-> tolower(letters[i])]

\* normalize_word on a buffer that may hold bytes above 127.  Where char is
\* signed such a byte is a negative int, and isalpha and tolower of a negative
\* int other than EOF are undefined: `high` is what the library does with it,
\* "drop" (isalpha gives 0) or "keep" (isalpha gives nonzero and tolower gives
\* the byte back).
normalize_word_char(word, high) ==
    LET kept(c) == IF c > 127 THEN high = "keep" ELSE isalpha(c)
        letters == SelectSeq(word, kept)
    IN [i \in 1..Len(letters) |-> IF letters[i] > 127 THEN letters[i] ELSE tolower(letters[i])]

\* the outcomes of normalize_word on a buffer: with a byte above 127 the call
\* may also fault
HighByteOutcomes(word) ==
    IF \E i \in DOMAIN word : word[i] > 127 THEN {"drop", "keep", "fault"} ELSE {"drop"}

\* hash_func (djb2): hash = hash * 33 + c from 5381 in an unsigned long, then
\* % HASH_SIZE.  The accumulator stays below 2^64 for words of at most 10
\* characters (5381 * 33^10 + ... < 2^64), where reducing modulo HASH_SIZE at
\* every step gives the same bucket; longer words are reduced the same way.
RECURSIVE hash_acc(_, _)
hash_acc(hash, str) ==
    IF str = <<>> THEN hash
    ELSE hash_acc((hash * 33 + Head(str)) % HASH_SIZE, Tail(str))

hash_func(str) == hash_acc(5381 % HASH_SIZE, str) % HASH_SIZE

\* strtok(text, Delims) called until it returns NULL: a token starts at every
\* non-delimiter character that begins the text or follows a delimiter, and runs
\* up to the next delimiter or the end of the text
IsTokenStart(text, i) ==
    text[i] \notin Delims /\ (i = 1 \/ text[i - 1] \in Delims)

TokenEnd(text, i) ==
    CHOOSE j \in i..Len(text) :
        /\ \A k \in i..j : text[k] \notin Delims
        /\ j = Len(text) \/ text[j + 1] \in Delims

\* the tokens that start at positions lo..hi, in the order strtok returns them
RECURSIVE TokensFrom(_, _, _)
TokensFrom(text, lo, hi) ==
    IF lo < hi
    THEN TokensFrom(text, lo, (lo + hi) \div 2)
             \o TokensFrom(text, ((lo + hi) \div 2) + 1, hi)
    ELSE IF lo = hi /\ IsTokenStart(text, lo)
         THEN <<SubSeq(text, lo, TokenEnd(text, lo))>>
         ELSE <<>>

\* the token loop handing on (and counting) only the tokens index_word keeps
Tokens_IndexedOnly(text) ==
    SelectSeq(TokensFrom(text, 1, Len(text)),
              LAMBDA t : Len(normalize_word(strncpy(t, MAX_WORD_LEN - 1))) >= 2)

Tokens(text) == TokensFrom(text, 1, Len(text))

\* ------------------------------------------------------------ state

VARIABLES
    nodes,       \* the TrieNodes allocated so far; nodes[1] is trie_root
    hash_table,  \* bucket index -> chain of HashEntry, head first (absent: NULL)
    documents,   \* the Document list, head (newest) first
    doc_count,   \* SearchEngine.doc_count
    texts,       \* history: the text given to index_text for document id i-1
    out          \* what the last operation printed or returned

vars == <<nodes, hash_table, documents, doc_count, texts, out>>

trie_root == 1

\* create_trie_node: calloc gives no children, is_end 0, no doc_list, total_freq 0
create_trie_node ==
    [children |-> <<>>, is_end |-> FALSE, doc_list |-> <<>>, total_freq |-> 0]

HasChild(ns, n, idx) == idx \in DOMAIN ns[n].children

\* ------------------------------------------------------------ trie

\* index of the first DocNode of doc_list with this doc_id, 0 when none
RECURSIVE find_doc(_, _, _)
find_doc(doc_list, doc_id, i) ==
    IF i > Len(doc_list) THEN 0
    ELSE IF doc_list[i].doc_id = doc_id THEN i
    ELSE find_doc(doc_list, doc_id, i + 1)

\* add_doc_occurrence with the total_freq update of the found branch left out
add_doc_occurrence_NoTotal(node, doc_id) ==
    LET i == find_doc(node.doc_list, doc_id, 1) IN
    IF i # 0
    THEN [node EXCEPT !.doc_list[i].frequency = @ + 1]
    ELSE [node EXCEPT !.doc_list = <<[doc_id |-> doc_id, frequency |-> 1]>> \o @,
                      !.total_freq = @ + 1]

\* add_doc_occurrence setting total_freq to 1 with a new entry, not adding 1
add_doc_occurrence_ResetTotal(node, doc_id) ==
    LET i == find_doc(node.doc_list, doc_id, 1) IN
    IF i # 0
    THEN [node EXCEPT !.doc_list[i].frequency = @ + 1, !.total_freq = @ + 1]
    ELSE [node EXCEPT !.doc_list = <<[doc_id |-> doc_id, frequency |-> 1]>> \o @,
                      !.total_freq = 1]

\* add_doc_occurrence without the scan for the document: always a new entry
add_doc_occurrence_AlwaysNew(node, doc_id) ==
    [node EXCEPT !.doc_list = <<[doc_id |-> doc_id, frequency |-> 1]>> \o @,
                 !.total_freq = @ + 1]

\* add_doc_occurrence: the TrieNode after the call
add_doc_occurrence(node, doc_id) ==
    LET i == find_doc(node.doc_list, doc_id, 1) IN
    IF i # 0
    THEN [node EXCEPT !.doc_list[i].frequency = @ + 1, !.total_freq = @ + 1]
    ELSE [node EXCEPT !.doc_list = <<[doc_id |-> doc_id, frequency |-> 1]>> \o @,
                      !.total_freq = @ + 1]

\* the descent loop of trie_insert from character i at node curr
RECURSIVE trie_insert_loop(_, _, _, _)
trie_insert_loop(ns, curr, word, i) ==
    IF i > Len(word) THEN [nodes |-> ns, curr |-> curr]
    ELSE LET idx == word[i] - 97 IN
         IF idx < 0 \/ idx >= ALPHABET_SIZE
         THEN trie_insert_loop(ns, curr, word, i + 1)
         ELSE IF HasChild(ns, curr, idx)
              THEN trie_insert_loop(ns, ns[curr].children[idx], word, i + 1)
              ELSE LET new == Len(ns) + 1
                       ns2 == Append([ns EXCEPT ![curr].children = @ @@ (idx :> new)],
                                     create_trie_node)
                   IN trie_insert_loop(ns2, new, word, i + 1)

\* trie_insert recording the occurrence without setting is_end
trie_insert_NoEnd(ns, word, doc_id) ==
    LET r == trie_insert_loop(ns, trie_root, word, 1)
    IN [nodes |-> [r.nodes EXCEPT ![r.curr] = add_doc_occurrence(@, doc_id)],
        node |-> r.curr]

\* trie_insert ending the word one node early: the path is built for the whole
\* word, is_end and the occurrence go to the node before the last
trie_insert_EndBeforeLast(ns, word, doc_id) ==
    LET r == trie_insert_loop(ns, trie_root, word, 1)
        p == trie_insert_loop(r.nodes, trie_root, SubSeq(word, 1, Len(word) - 1), 1)
        ended == [r.nodes EXCEPT ![p.curr].is_end = TRUE]
    IN [nodes |-> [ended EXCEPT ![p.curr] = add_doc_occurrence(@, doc_id)],
        node |-> p.curr]

\* trie_insert: the nodes after the call and the node returned
trie_insert(ns, word, doc_id) ==
    LET r == trie_insert_loop(ns, trie_root, word, 1)
        ended == [r.nodes EXCEPT ![r.curr].is_end = TRUE]
    IN [nodes |-> [ended EXCEPT ![r.curr] = add_doc_occurrence(@, doc_id)],
        node |-> r.curr]

\* trie_search: the terminal node spelled by word, or NULL
RECURSIVE trie_search_loop(_, _, _, _)
trie_search_loop(ns, curr, word, i) ==
    IF i > Len(word) THEN (IF ns[curr].is_end THEN curr ELSE NULL)
    ELSE LET idx == word[i] - 97 IN
         IF idx < 0 \/ idx >= ALPHABET_SIZE THEN NULL
         ELSE IF ~HasChild(ns, curr, idx) THEN NULL
         ELSE trie_search_loop(ns, ns[curr].children[idx], word, i + 1)

trie_search(ns, word) == trie_search_loop(ns, trie_root, word, 1)

\* ------------------------------------------------------------ hash table

Bucket(ht, idx) == IF idx \in DOMAIN ht THEN ht[idx] ELSE <<>>

\* index in the chain of the first entry whose word is `word`, 0 when none
RECURSIVE find_entry(_, _, _)
find_entry(chain, word, i) ==
    IF i > Len(chain) THEN 0
    ELSE IF chain[i].word = word THEN i
    ELSE find_entry(chain, word, i + 1)

\* hash_insert: the table after the call
hash_insert(ht, word, trie_node) ==
    LET idx == hash_func(word)
        chain == Bucket(ht, idx)
    IN IF find_entry(chain, word, 1) # 0 THEN ht
       ELSE (idx :> (<<[word |-> word, trie_node |-> trie_node]>> \o chain)) @@ ht

\* hash_search without the strcmp of the chain walk: the node of the bucket's head
hash_search_BucketHead(ht, word) ==
    LET chain == Bucket(ht, hash_func(word))
    IN IF Len(chain) = 0 THEN NULL ELSE chain[1].trie_node

\* hash_search: the trie node stored for word, or NULL
hash_search(ht, word) ==
    LET chain == Bucket(ht, hash_func(word))
        i == find_entry(chain, word, 1)
    IN IF i = 0 THEN NULL ELSE chain[i].trie_node

\* ------------------------------------------------------------ documents

\* add_document: the list after the call (doc_count is incremented by the caller below)
\* add_document giving the new Document the id of the newest one, not the next id
add_document_ReuseId(docs, count, filename) ==
    <<[id |-> IF count > 0 THEN count - 1 ELSE 0, filename |-> filename,
       word_count |-> 0]>> \o docs

\* add_document numbering the Documents from 1
add_document_IdFromOne(docs, count, filename) ==
    <<[id |-> count + 1, filename |-> filename, word_count |-> 0]>> \o docs

add_document(docs, count, filename) ==
    <<[id |-> count, filename |-> filename, word_count |-> 0]>> \o docs

\* get_document: index in the list of the first Document with this id, 0 when none
RECURSIVE get_document(_, _, _)
get_document(docs, doc_id, i) ==
    IF i > Len(docs) THEN 0
    ELSE IF docs[i].id = doc_id THEN i
    ELSE get_document(docs, doc_id, i + 1)

\* index_text leaving the Document's word_count as add_document set it
set_word_count_Skip(docs, doc_id, word_count) == docs

\* the end of index_text: doc = get_document(...); if (doc) doc->word_count = word_count
set_word_count(docs, doc_id, word_count) ==
    LET d == get_document(docs, doc_id, 1) IN
    IF d # 0 THEN [docs EXCEPT ![d].word_count = word_count] ELSE docs

\* ------------------------------------------------------------ indexing

\* index_word skipping the words of two characters too
index_word_Min3(e, word, doc_id) ==
    LET normalized == normalize_word(strncpy(word, MAX_WORD_LEN - 1)) IN
    IF Len(normalized) <= 2 THEN e
    ELSE LET r == trie_insert(e.nodes, normalized, doc_id) IN
         [nodes |-> r.nodes, hash_table |-> hash_insert(e.hash_table, normalized, r.node)]

\* index_word skipping only the words that normalize to nothing
index_word_Min1(e, word, doc_id) ==
    LET normalized == normalize_word(strncpy(word, MAX_WORD_LEN - 1)) IN
    IF Len(normalized) < 1 THEN e
    ELSE LET r == trie_insert(e.nodes, normalized, doc_id) IN
         [nodes |-> r.nodes, hash_table |-> hash_insert(e.hash_table, normalized, r.node)]

\* index_word: the trie and the hash table after the call
index_word(e, word, doc_id) ==
    LET normalized == normalize_word(strncpy(word, MAX_WORD_LEN - 1)) IN
    IF Len(normalized) < 2 THEN e
    ELSE LET r == trie_insert(e.nodes, normalized, doc_id) IN
         [nodes |-> r.nodes, hash_table |-> hash_insert(e.hash_table, normalized, r.node)]

\* the token loop of index_text over tokens lo..hi, in order.  The range is
\* split in two halves, the first indexed before the second, which keeps the
\* evaluation depth logarithmic in the number of tokens; the test on `first`
\* (never true: the root is never freed) only makes the first half be evaluated
\* before the second is entered.
RECURSIVE index_tokens(_, _, _, _, _)
index_tokens(e, toks, lo, hi, doc_id) ==
    IF lo < hi
    THEN LET mid == (lo + hi) \div 2
             first == index_tokens(e, toks, lo, mid, doc_id)
         IN IF first.nodes = <<>> THEN first
            ELSE index_tokens(first, toks, mid + 1, hi, doc_id)
    ELSE IF lo = hi THEN index_word(e, toks[lo], doc_id)
    ELSE e

\* the token loop of index_text over all the tokens of the text
index_text_loop(e, toks, doc_id) == index_tokens(e, toks, 1, Len(toks), doc_id)

\* ------------------------------------------------------------ queries

\* the query functions' strncpy(normalized, word, MAX_WORD_LEN - 1) into an
\* uninitialized buffer: a word shorter than MAX_WORD_LEN - 1 is copied whole and
\* zero-padded.  Every prefix and multi-keyword query word of this model is that
\* short.
query_copy(word) == strncpy(word, MAX_WORD_LEN - 1)

\* The same copy of a word of MAX_WORD_LEN - 1 characters or more: no
\* terminator is stored, normalized[MAX_WORD_LEN - 1] is never written, and
\* normalize_word reads on from it until it meets a 0 byte.  `junk` is what it
\* reads there before that 0 byte: nothing when the byte happens to be 0.
query_copy_junk(word, junk) ==
    IF Len(word) < MAX_WORD_LEN - 1 THEN word
    ELSE SubSeq(word, 1, MAX_WORD_LEN - 1) \o junk

\* what the uninitialized tail can hold: a 0 byte, or the letter 'b' then a 0 byte
UninitTails(word) == IF Len(word) < MAX_WORD_LEN - 1 THEN {<<>>} ELSE {<<>>, <<98>>}

\* whether the read past the copied characters can leave the buffer and fault
Overruns(word) == IF Len(word) < MAX_WORD_LEN - 1 THEN {FALSE} ELSE {FALSE, TRUE}

\* filename printed for a doc_id: the Document's, or the fallback
filename_of(docs, doc_id, fallback) ==
    LET d == get_document(docs, doc_id, 1) IN
    IF d # 0 THEN docs[d].filename ELSE fallback

\* output_freq_result: the JSON object printed
output_freq_result(ns, ht, docs, word, junk) ==
    LET normalized == normalize_word(query_copy_junk(word, junk))
        node == hash_search(ht, normalized)
    IN IF node = NULL
       THEN [word |-> normalized, found |-> FALSE, total_freq |-> 0, documents |-> <<>>]
       ELSE [word |-> normalized, found |-> TRUE, total_freq |-> ns[node].total_freq,
             documents |->
                 [i \in 1..Len(ns[node].doc_list) |->
                     LET doc == ns[node].doc_list[i] IN
                     [doc_id |-> doc.doc_id,
                      filename |-> filename_of(docs, doc.doc_id, "unknown"),
                      frequency |-> doc.frequency]]]

\* output_search_result: the JSON object printed
output_search_result(ns, ht, docs, keyword, junk) ==
    LET normalized == normalize_word(query_copy_junk(keyword, junk))
        node == hash_search(ht, normalized)
    IN IF node = NULL
       THEN [keyword |-> normalized, found |-> FALSE, results |-> <<>>]
       ELSE [keyword |-> normalized, found |-> TRUE, total_freq |-> ns[node].total_freq,
             results |->
                 [i \in 1..Len(ns[node].doc_list) |->
                     LET doc == ns[node].doc_list[i]
                         d == get_document(docs, doc.doc_id, 1)
                     IN [doc_id |-> doc.doc_id,
                         filename |-> IF d # 0 THEN docs[d].filename ELSE "unknown",
                         frequency |-> doc.frequency,
                         word_count |-> IF d # 0 THEN docs[d].word_count ELSE 0]]]

\* show_word_frequency of searchEngine.c: what it prints.  tf is the quotient
\* (float)frequency / word_count, kept as its two operands: den = 0 is a
\* division by zero; a doc_id with no Document gives tf 0 (0 / 1)
show_word_frequency(ns, ht, docs, word, junk) ==
    LET normalized == normalize_word(query_copy_junk(word, junk))
        node == hash_search(ht, normalized)
    IN IF node = NULL
       THEN [word |-> normalized, found |-> FALSE, total_freq |-> 0, documents |-> <<>>]
       ELSE [word |-> normalized, found |-> TRUE, total_freq |-> ns[node].total_freq,
             documents |->
                 [i \in 1..Len(ns[node].doc_list) |->
                     LET doc == ns[node].doc_list[i]
                         d == get_document(docs, doc.doc_id, 1)
                     IN [filename |-> IF d # 0 THEN docs[d].filename ELSE "Unknown",
                         frequency |-> doc.frequency,
                         tf |-> IF d # 0
                                THEN [num |-> doc.frequency, den |-> docs[d].word_count]
                                ELSE [num |-> 0, den |-> 1]]]]

\* the descent of output_prefix_result and trie_prefix_search: the node reached by
\* the prefix, or NULL when a character has no child
RECURSIVE prefix_descend(_, _, _, _)
\* the descent staying at the last node reached when a character has no child
prefix_descend_StopAtMissing(ns, curr, prefix, i) ==
    IF i > Len(prefix) THEN curr
    ELSE LET idx == prefix[i] - 97 IN
         IF idx < 0 \/ idx >= ALPHABET_SIZE \/ ~HasChild(ns, curr, idx) THEN curr
         ELSE prefix_descend(ns, ns[curr].children[idx], prefix, i + 1)

prefix_descend(ns, curr, prefix, i) ==
    IF i > Len(prefix) THEN curr
    ELSE LET idx == prefix[i] - 97 IN
         IF idx < 0 \/ idx >= ALPHABET_SIZE \/ ~HasChild(ns, curr, idx) THEN NULL
         ELSE prefix_descend(ns, ns[curr].children[idx], prefix, i + 1)

\* collect_prefix_words: results is [words, calls]; words are the PrefixResults
\* entries, calls records the buffer contents of every call made (a trace of the
\* traversal, not program state)
RECURSIVE collect_prefix_words(_, _, _, _)
RECURSIVE collect_children(_, _, _, _, _)
RECURSIVE collect_range(_, _, _, _, _)
\* collect_prefix_words emitting an entry at every node, terminal or not
collect_prefix_words_AllNodes(ns, node, prefix, results) ==
    LET entered == [results EXCEPT !.calls = Append(@, prefix)] IN
    IF node = NULL \/ Len(results.words) >= PREFIX_CAP THEN entered
    ELSE collect_children(ns, node, prefix, 0,
             [entered EXCEPT !.words =
                 Append(@, [word |-> prefix, frequency |-> ns[node].total_freq])])

\* collect_prefix_words emitting a terminal node after its children (post-order)
collect_prefix_words_PostOrder(ns, node, prefix, results) ==
    LET entered == [results EXCEPT !.calls = Append(@, prefix)] IN
    IF node = NULL \/ Len(results.words) >= PREFIX_CAP THEN entered
    ELSE LET r == collect_children(ns, node, prefix, 0, entered)
         IN IF ns[node].is_end /\ Len(r.words) < PREFIX_CAP
            THEN [r EXCEPT !.words =
                     Append(@, [word |-> prefix, frequency |-> ns[node].total_freq])]
            ELSE r

collect_prefix_words(ns, node, prefix, results) ==
    LET entered == [results EXCEPT !.calls = Append(@, prefix)] IN
    IF node = NULL \/ Len(results.words) >= PREFIX_CAP THEN entered
    ELSE LET r == IF ns[node].is_end
                  THEN [entered EXCEPT !.words =
                           Append(@, [word |-> prefix, frequency |-> ns[node].total_freq])]
                  ELSE entered
         IN collect_children(ns, node, prefix, 0, r)

\* the test of the loop of collect_prefix_words stopping one result early
collect_loop_test_Cap99(i, results) ==
    i < ALPHABET_SIZE /\ Len(results.words) < PREFIX_CAP - 1

\* the test of the loop of collect_prefix_words testing count <= 100: with the
\* results full every remaining child is still called, and returns at its own test
collect_loop_test_LoopBoundLe(i, results) ==
    i < ALPHABET_SIZE /\ Len(results.words) <= PREFIX_CAP

\* the test of the loop of collect_prefix_words
collect_loop_test(i, results) ==
    i < ALPHABET_SIZE /\ Len(results.words) < PREFIX_CAP

\* the body of iteration i of the loop of collect_prefix_words
collect_visit(ns, node, prefix, i, results) ==
    IF HasChild(ns, node, i)
    THEN collect_prefix_words(ns, ns[node].children[i], Append(prefix, 97 + i), results)
    ELSE results

\* the iterations from i of the loop of collect_prefix_words, the test of
\* iteration i already passed: four iterations at a time, each test made on the
\* results of the iterations before it, the loop ending at the first test that
\* fails (the test fails at i = ALPHABET_SIZE)
collect_range(ns, node, prefix, i, results) ==
    LET r1 == collect_visit(ns, node, prefix, i, results)
        r2 == collect_visit(ns, node, prefix, i + 1, r1)
        r3 == collect_visit(ns, node, prefix, i + 2, r2)
        r4 == collect_visit(ns, node, prefix, i + 3, r3)
    IN IF ~collect_loop_test(i + 1, r1) THEN r1
       ELSE IF ~collect_loop_test(i + 2, r2) THEN r2
       ELSE IF ~collect_loop_test(i + 3, r3) THEN r3
       ELSE IF ~collect_loop_test(i + 4, r4) THEN r4
       ELSE collect_range(ns, node, prefix, i + 4, r4)

\* the loop of collect_prefix_words over the children from index i
collect_children(ns, node, prefix, i, results) ==
    IF collect_loop_test(i, results)
    THEN collect_range(ns, node, prefix, i, results)
    ELSE results

\* output_prefix_result: the JSON object printed (with the trace of calls)
output_prefix_result(ns, prefix) ==
    LET normalized == normalize_word(query_copy(prefix))
        curr == prefix_descend(ns, trie_root, normalized, 1)
    IN IF curr = NULL
       THEN [prefix |-> normalized, found |-> FALSE, words |-> <<>>, calls |-> <<>>]
       ELSE LET r == collect_prefix_words(ns, curr, normalized,
                                          [words |-> <<>>, calls |-> <<>>])
            IN [prefix |-> normalized, found |-> TRUE, words |-> r.words, calls |-> r.calls]

\* trie_prefix_helper: the lines printed, in order
RECURSIVE trie_prefix_helper(_, _, _)
RECURSIVE trie_prefix_children(_, _, _, _)
RECURSIVE trie_prefix_range(_, _, _, _, _)
trie_prefix_helper(ns, node, prefix) ==
    IF node = NULL THEN <<>>
    ELSE (IF ns[node].is_end
          THEN <<[word |-> prefix, frequency |-> ns[node].total_freq]>>
          ELSE <<>>)
         \o trie_prefix_children(ns, node, prefix, 0)

\* the iterations lo..hi of the loop of trie_prefix_helper, in order (the range
\* is split in two halves; an iteration without a child prints nothing)
trie_prefix_range(ns, node, prefix, lo, hi) ==
    IF lo < hi
    THEN trie_prefix_range(ns, node, prefix, lo, (lo + hi) \div 2)
             \o trie_prefix_range(ns, node, prefix, ((lo + hi) \div 2) + 1, hi)
    ELSE IF HasChild(ns, node, lo)
         THEN trie_prefix_helper(ns, ns[node].children[lo], Append(prefix, 97 + lo))
         ELSE <<>>

\* the loop of trie_prefix_helper over the children from index i
trie_prefix_children(ns, node, prefix, i) ==
    IF i < ALPHABET_SIZE
    THEN trie_prefix_range(ns, node, prefix, i, ALPHABET_SIZE - 1)
    ELSE <<>>

\* search_prefix / trie_prefix_search: found is FALSE when "No words found" is printed
search_prefix(ns, prefix) ==
    LET normalized == normalize_word(query_copy(prefix))
        curr == prefix_descend(ns, trie_root, normalized, 1)
    IN IF curr = NULL
       THEN [prefix |-> normalized, found |-> FALSE, words |-> <<>>]
       ELSE [prefix |-> normalized, found |-> TRUE,
             words |-> trie_prefix_helper(ns, curr, normalized)]

\* the inner loop of search_multi over one word's doc_list from entry j
RECURSIVE multi_accumulate(_, _, _)
\* the inner loop of search_multi adding 1 to the score instead of the frequency
multi_accumulate_CountOnly(doc_list, j, acc) ==
    IF j > Len(doc_list) THEN acc
    ELSE multi_accumulate(doc_list, j + 1,
             [doc_matches |-> [acc.doc_matches EXCEPT ![doc_list[j].doc_id] = @ + 1],
              doc_scores |-> [acc.doc_scores EXCEPT ![doc_list[j].doc_id] = @ + 1]])

multi_accumulate(doc_list, j, acc) ==
    IF j > Len(doc_list) THEN acc
    ELSE multi_accumulate(doc_list, j + 1,
             [doc_matches |-> [acc.doc_matches EXCEPT ![doc_list[j].doc_id] = @ + 1],
              doc_scores |-> [acc.doc_scores EXCEPT ![doc_list[j].doc_id] =
                                 @ + doc_list[j].frequency]])

\* the keyword loop of search_multi from keyword i: the arrays, or the early return
RECURSIVE multi_keywords(_, _, _, _, _)
multi_keywords(ns, ht, keywords, i, acc) ==
    IF i > Len(keywords) THEN [notfound |-> FALSE, acc |-> acc]
    ELSE LET normalized == normalize_word(query_copy(keywords[i]))
             node == hash_search(ht, normalized)
         IN IF node = NULL THEN [notfound |-> TRUE, word |-> normalized]
            ELSE multi_keywords(ns, ht, keywords, i + 1,
                                multi_accumulate(ns[node].doc_list, 1, acc))

\* the display loop of search_multi from document i
RECURSIVE multi_display(_, _, _, _, _)
\* the display loop of search_multi accepting a document that matches any keyword
multi_display_Any(docs, count, acc, i, dcount) ==
    IF i >= dcount THEN <<>>
    ELSE (IF acc.doc_matches[i] >= 1
          THEN <<[doc_id |-> i, filename |-> filename_of(docs, i, "Unknown"),
                  score |-> acc.doc_scores[i]]>>
          ELSE <<>>)
         \o multi_display(docs, count, acc, i + 1, dcount)

\* the display loop of search_multi printing the newest document first
multi_display_Desc(docs, count, acc, i, dcount) ==
    IF i >= dcount THEN <<>>
    ELSE multi_display(docs, count, acc, i + 1, dcount)
         \o (IF acc.doc_matches[i] = count
             THEN <<[doc_id |-> i, filename |-> filename_of(docs, i, "Unknown"),
                     score |-> acc.doc_scores[i]]>>
             ELSE <<>>)

\* the display loop of search_multi printing only documents with a match
multi_display_Positive(docs, count, acc, i, dcount) ==
    IF i >= dcount THEN <<>>
    ELSE (IF acc.doc_matches[i] = count /\ acc.doc_matches[i] > 0
          THEN <<[doc_id |-> i, filename |-> filename_of(docs, i, "Unknown"),
                  score |-> acc.doc_scores[i]]>>
          ELSE <<>>)
         \o multi_display(docs, count, acc, i + 1, dcount)

multi_display(docs, count, acc, i, dcount) ==
    IF i >= dcount THEN <<>>
    ELSE (IF acc.doc_matches[i] = count
          THEN <<[doc_id |-> i, filename |-> filename_of(docs, i, "Unknown"),
                  score |-> acc.doc_scores[i]]>>
          ELSE <<>>)
         \o multi_display(docs, count, acc, i + 1, dcount)

\* search_multi leaving the unknown keywords out of the query
search_multi_DropUnknown(ns, ht, docs, dcount, keywords) ==
    LET known(k) == hash_search(ht, normalize_word(query_copy(k))) # NULL
        kept == SelectSeq(keywords, known)
        zero == [i \in 0..(dcount - 1) |-> 0]
        r == multi_keywords(ns, ht, kept, 1, [doc_matches |-> zero, doc_scores |-> zero])
    IN [notfound |-> FALSE,
        documents |-> multi_display(docs, Len(kept), r.acc, 0, dcount)]

\* search_multi: the documents printed, in order; notfound when it returns early
search_multi(ns, ht, docs, dcount, keywords) ==
    LET zero == [i \in 0..(dcount - 1) |-> 0]
        r == multi_keywords(ns, ht, keywords, 1, [doc_matches |-> zero, doc_scores |-> zero])
    IN IF r.notfound
       THEN [notfound |-> TRUE, word |-> r.word, documents |-> <<>>]
       ELSE [notfound |-> FALSE,
             documents |-> multi_display(docs, Len(keywords), r.acc, 0, dcount)]

\* ------------------------------------------------------------ inputs

\* "ab Ab, abc."
Text1 == <<97, 98, 32, 65, 98, 44, 32, 97, 98, 99, 46>>

\* "a1c aid I a"
Text2 == <<97, 49, 99, 32, 97, 105, 100, 32, 73, 32, 97>>

\* "daa ab? 1"
Text3 == <<100, 97, 97, 32, 97, 98, 63, 32, 49>>

\* a token of 100 characters, 97 digits then "abc", followed by " ac"
LongToken == [i \in 1..97 |-> 49] \o <<97, 98, 99>>

Text4 == LongToken \o <<32, 97, 99>>

\* " .\n": separators only
Text5 == <<32, 46, 10>>

\* the words c x y for x, y among the first n letters, each followed by a space
Grid(c, n) ==
    LET word(k) == <<c, 97 + ((k - 1) \div n), 97 + ((k - 1) % n), 32>>
    IN [p \in 1..(4 * n * n) |-> word(((p - 1) \div 4) + 1)[((p - 1) % 4) + 1]]

\* 121 words "b.." and 100 words "c.."
TextBig == Grid(98, 11) \o Grid(99, 10)

Texts == {Text1, Text2, Text3, Text4, Text5, TextBig}

\* the name searchCLI.c gives the text it reads from stdin
Names == {"uploaded_doc"}

\* a query word of MAX_WORD_LEN - 1 characters: 98 digits, then "a"
LongQuery == [i \in 1..98 |-> 49] \o <<97>>

\* query words: "ab", "Abc", "a-c", "aid", "daa", "a", "", "zz", "bab", all
\* shorter than MAX_WORD_LEN - 1, and LongQuery
QueryWords ==
    {<<97, 98>>, <<65, 98, 99>>, <<97, 45, 99>>, <<97, 105, 100>>, <<100, 97, 97>>,
     <<97>>, <<>>, <<122, 122>>, <<98, 97, 98>>, LongQuery}

\* prefixes: "", "a", "A1b", "abc", "b", "ba", "c", "d", "z", "1"
Prefixes ==
    {<<>>, <<97>>, <<65, 49, 98>>, <<97, 98, 99>>, <<98>>, <<98, 97>>, <<99>>,
     <<100>>, <<122>>, <<49>>}

\* words of a multi-keyword query: "ab", "Abc", "ac", "zz"
MultiWords == {<<97, 98>>, <<65, 98, 99>>, <<97, 99>>, <<122, 122>>}

SeqsUpTo(S, n) == UNION {[1..k -> S] : k \in 0..n}

\* ------------------------------------------------------------ operations

Init ==
    /\ nodes = <<create_trie_node>>
    /\ hash_table = <<>>
    /\ documents = <<>>
    /\ doc_count = 0
    /\ texts = <<>>
    /\ out = [op |-> "create"]

\* Both programs index first and query afterwards: searchCLI.c's main calls
\* index_text and then one output function before it returns, the main of
\* searchEngine.c indexes its documents before its first search.  A run of the
\* model is a sequence of index_text calls followed by one query.
Indexing == out.op \in {"create", "index_text"}

\* index_text(engine, name, text), and what output_index_result prints for it
IndexText ==
    /\ Indexing
    /\ doc_count < MaxDocs
    /\ \E name \in Names, text \in Texts :
        LET docs1 == add_document(documents, doc_count, name)
            doc_id == (doc_count + 1) - 1
            toks == Tokens(text)
            e == index_text_loop([nodes |-> nodes, hash_table |-> hash_table], toks, doc_id)
            word_count == Len(toks)
            docs2 == set_word_count(docs1, doc_id, word_count)
            d2 == get_document(docs2, doc_id, 1)
        IN /\ nodes' = e.nodes
           /\ hash_table' = e.hash_table
           /\ documents' = docs2
           /\ doc_count' = doc_count + 1
           /\ texts' = Append(texts, text)
           /\ out' = [op |-> "index_text", doc_id |-> doc_id,
                      filename |-> IF d2 # 0 THEN docs2[d2].filename ELSE "unknown",
                      word_count |-> IF d2 # 0 THEN docs2[d2].word_count ELSE 0]

\* output_freq_result(engine, word)
WordFrequency ==
    /\ Indexing
    /\ \E word \in QueryWords : \E junk \in UninitTails(word), overrun \in Overruns(word) :
        out' = IF overrun THEN [op |-> "fault", cmd |-> "freq", arg |-> word]
               ELSE [op |-> "freq", arg |-> word,
                     res |-> output_freq_result(nodes, hash_table, documents, word, junk)]
    /\ UNCHANGED <<nodes, hash_table, documents, doc_count, texts>>

\* output_search_result(engine, keyword)
KeywordSearch ==
    /\ Indexing
    /\ \E word \in QueryWords : \E junk \in UninitTails(word), overrun \in Overruns(word) :
        out' = IF overrun THEN [op |-> "fault", cmd |-> "search", arg |-> word]
               ELSE [op |-> "search", arg |-> word,
                     res |-> output_search_result(nodes, hash_table, documents, word, junk)]
    /\ UNCHANGED <<nodes, hash_table, documents, doc_count, texts>>

\* show_word_frequency(engine, word) of searchEngine.c
ShowWordFrequency ==
    /\ Indexing
    /\ \E word \in QueryWords : \E junk \in UninitTails(word), overrun \in Overruns(word) :
        out' = IF overrun THEN [op |-> "fault", cmd |-> "show_freq", arg |-> word]
               ELSE [op |-> "show_freq", arg |-> word,
                     res |-> show_word_frequency(nodes, hash_table, documents, word, junk)]
    /\ UNCHANGED <<nodes, hash_table, documents, doc_count, texts>>

\* output_prefix_result descending as trie_insert does, creating the children
\* the prefix lacks
PrefixSearch_CreatingNodes ==
    /\ Indexing
    /\ \E prefix \in Prefixes :
        /\ out' = [op |-> "prefix", arg |-> prefix,
                   res |-> output_prefix_result(nodes, prefix)]
        /\ nodes' = trie_insert_loop(nodes, trie_root, normalize_word(query_copy(prefix)), 1).nodes
    /\ UNCHANGED <<hash_table, documents, doc_count, texts>>

\* output_prefix_result(engine, prefix)
PrefixSearch ==
    /\ Indexing
    /\ \E prefix \in Prefixes :
        out' = [op |-> "prefix", arg |-> prefix,
                res |-> output_prefix_result(nodes, prefix)]
    /\ UNCHANGED <<nodes, hash_table, documents, doc_count, texts>>

\* search_prefix(engine, prefix) of searchEngine.c
SearchPrefix ==
    /\ Indexing
    /\ \E prefix \in Prefixes :
        out' = [op |-> "search_prefix", arg |-> prefix,
                res |-> search_prefix(nodes, prefix)]
    /\ UNCHANGED <<nodes, hash_table, documents, doc_count, texts>>

\* search_multi(engine, keywords, count)
SearchMulti ==
    /\ Indexing
    /\ \E keywords \in SeqsUpTo(MultiWords, MaxKeywords) :
        out' = [op |-> "multi", arg |-> keywords,
                res |-> search_multi(nodes, hash_table, documents, doc_count, keywords)]
    /\ UNCHANGED <<nodes, hash_table, documents, doc_count, texts>>

Next ==
    \/ IndexText
    \/ WordFrequency
    \/ KeywordSearch
    \/ ShowWordFrequency
    \/ PrefixSearch
    \/ SearchPrefix
    \/ SearchMulti

Spec == Init /\ [][Next]_vars

\* ------------------------------------------------------------ what was indexed

\* the tokens of every input text, computed once
TokensOf == [t \in Texts |-> Tokens(t)]

DocIds == 0..(doc_count - 1)

\* the tokens of the text indexed as document d
DocTokens(d) == TokensOf[texts[d + 1]]

\* the number of tokens of document d whose first MAX_WORD_LEN - 1 characters
\* normalize to w
TokenCount(d, w) ==
    Cardinality({k \in 1..Len(DocTokens(d)) :
                    normalize_word(strncpy(DocTokens(d)[k], MAX_WORD_LEN - 1)) = w})

\* the number of tokens of document d that normalize to w
WholeTokenCount(d, w) ==
    Cardinality({k \in 1..Len(DocTokens(d)) : normalize_word(DocTokens(d)[k]) = w})

\* the sum of the frequencies of a doc_list or of a printed per-document list
RECURSIVE SumFrequencyFrom(_, _)
SumFrequencyFrom(list, i) ==
    IF i > Len(list) THEN 0 ELSE list[i].frequency + SumFrequencyFrom(list, i + 1)

SumFrequency(list) == SumFrequencyFrom(list, 1)

IsPrefixOf(p, w) == Len(p) <= Len(w) /\ SubSeq(w, 1, Len(p)) = p

\* the words of the Lookup Index
HashWords ==
    UNION {{hash_table[b][i].word : i \in DOMAIN hash_table[b]} : b \in DOMAIN hash_table}

\* the words whose first MAX_WORD_LEN - 1 characters gave a normalized form of
\* two characters or more
IndexedWordsOf ==
    [t \in Texts |->
        {w \in {normalize_word(strncpy(TokensOf[t][k], MAX_WORD_LEN - 1)) :
                   k \in 1..Len(TokensOf[t])} : Len(w) >= 2}]

IndexedWords == UNION {IndexedWordsOf[texts[d + 1]] : d \in DocIds}

\* the document ids of a word's occurrence list (the word must be in the index)
OccurrenceDocs(w) ==
    LET list == nodes[hash_search(hash_table, w)].doc_list IN
    {list[i].doc_id : i \in DOMAIN list}

\* the frequency of document d in a word's occurrence list, 0 when it has no entry
OccurrenceFreq(w, d) ==
    LET list == nodes[hash_search(hash_table, w)].doc_list
        i == find_doc(list, d, 1)
    IN IF i = 0 THEN 0 ELSE list[i].frequency

\* ------------------------------------------------------------ C1

\* C1: in every state reached by index_text calls, every trie node's total_freq
\* is the sum of the frequencies of its doc_list, and word_frequency reports a
\* total_freq that is the sum of the per-document frequencies it lists.
C1_TotalIsSum ==
    /\ \A n \in DOMAIN nodes : nodes[n].total_freq = SumFrequency(nodes[n].doc_list)
    /\ out.op = "freq" => out.res.total_freq = SumFrequency(out.res.documents)

\* a word found in two documents, more than once in one of them
C1_Witness ==
    /\ out.op = "freq" /\ out.res.found
    /\ Len(out.res.documents) >= 2
    /\ \E i \in DOMAIN out.res.documents : out.res.documents[i].frequency >= 2

\* ------------------------------------------------------------ C2

\* the number of tokens of the documents d..doc_count-1 whose first
\* MAX_WORD_LEN - 1 characters normalize to w
RECURSIVE TotalTokenCount(_, _)
TotalTokenCount(w, d) ==
    IF d >= doc_count THEN 0 ELSE TokenCount(d, w) + TotalTokenCount(w, d + 1)

\* the number of tokens of the documents d..doc_count-1 that normalize to w
RECURSIVE TotalWholeTokenCount(_, _)
TotalWholeTokenCount(w, d) ==
    IF d >= doc_count THEN 0 ELSE WholeTokenCount(d, w) + TotalWholeTokenCount(w, d + 1)

\* C2 as stated: for a query word whose normalized form w has two characters or
\* more, word_frequency reports found exactly when some token of some document
\* normalizes to w, lists exactly one (d, f) for every document with such a
\* token, f the number of its tokens that normalize to w, and reports as
\* total_freq the number of such tokens over all documents.
C2_WholeTokens ==
    (out.op = "freq" /\ Len(normalize_word(out.arg)) >= 2) =>
        LET w == normalize_word(out.arg)
            list == out.res.documents
        IN /\ out.res.found <=> \E d \in DocIds : WholeTokenCount(d, w) > 0
           /\ {list[i].doc_id : i \in DOMAIN list} = {d \in DocIds : WholeTokenCount(d, w) > 0}
           /\ \A i, j \in DOMAIN list : list[i].doc_id = list[j].doc_id => i = j
           /\ \A i \in DOMAIN list : list[i].frequency = WholeTokenCount(list[i].doc_id, w)
           /\ out.res.total_freq = TotalWholeTokenCount(w, 0)

\* C2 (amended): for a query word shorter than MAX_WORD_LEN - 1 whose normalized
\* form w has two characters or more, word_frequency reports found exactly when
\* the first MAX_WORD_LEN - 1 characters of some token of some document normalize
\* to w; it then lists exactly one (d, f) for every document with such a token, f
\* the number of such tokens of d, and total_freq is their number over all documents.
C2_TruncatedTokens ==
    (out.op = "freq" /\ Len(out.arg) < MAX_WORD_LEN - 1
        /\ Len(normalize_word(out.arg)) >= 2) =>
        LET w == normalize_word(out.arg)
            list == out.res.documents
        IN /\ out.res.found <=> \E d \in DocIds : TokenCount(d, w) > 0
           /\ {list[i].doc_id : i \in DOMAIN list} = {d \in DocIds : TokenCount(d, w) > 0}
           /\ \A i, j \in DOMAIN list : list[i].doc_id = list[j].doc_id => i = j
           /\ \A i \in DOMAIN list : list[i].frequency = TokenCount(list[i].doc_id, w)
           /\ out.res.total_freq = TotalTokenCount(w, 0)

\* "ab" is found only because a document holds the 100-character token whose
\* first 99 characters normalize to it: no token normalizes to "ab"
C2_Witness ==
    /\ out.op = "freq" /\ out.res.found
    /\ normalize_word(out.arg) = <<97, 98>>
    /\ \A d \in DocIds : WholeTokenCount(d, <<97, 98>>) = 0
    /\ \E d \in DocIds : TokenCount(d, <<97, 98>>) > 0

\* ------------------------------------------------------------ C3

\* the normalized query words of the last multi-keyword search
MultiQuery == [i \in DOMAIN out.arg |-> normalize_word(out.arg[i])]

AllKnown == \A i \in DOMAIN MultiQuery : hash_search(hash_table, MultiQuery[i]) # NULL

\* the document ids the last multi-keyword search printed
MultiDocs == {out.res.documents[k].doc_id : k \in DOMAIN out.res.documents}

\* C3: when every query word (duplicates allowed) is in the Lookup Index,
\* multi_keyword_search returns document d exactly when every query word's
\* occurrence list has an entry for d; a returned document is one that
\* keyword_search reports for each query word.
C3_AndSemantics ==
    (out.op = "multi" /\ AllKnown) =>
        /\ ~out.res.notfound
        /\ \A d \in DocIds :
              d \in MultiDocs <=> \A i \in DOMAIN MultiQuery : d \in OccurrenceDocs(MultiQuery[i])
        /\ MultiDocs \subseteq DocIds
        /\ \A d \in MultiDocs : \A i \in DOMAIN out.arg :
              LET r == output_search_result(nodes, hash_table, documents, out.arg[i], <<>>).results
              IN \E k \in DOMAIN r : r[k].doc_id = d

\* two different known words, one document returned and another left out
C3_Witness ==
    /\ out.op = "multi" /\ AllKnown
    /\ Len(out.arg) = 2 /\ MultiQuery[1] # MultiQuery[2]
    /\ MultiDocs # {} /\ MultiDocs # DocIds
    /\ \E d \in DocIds \ MultiDocs : d \in OccurrenceDocs(MultiQuery[1])

\* ------------------------------------------------------------ C4

\* C4: if any query word has no entry in the Lookup Index, multi_keyword_search
\* reports no document, wherever the unknown word stands in the query.
C4_UnknownWordEmpty ==
    (out.op = "multi" /\ ~AllKnown) => (out.res.notfound /\ out.res.documents = <<>>)

\* the unknown word comes last, after a word that some document contains
C4_Witness ==
    /\ out.op = "multi" /\ Len(out.arg) = 2
    /\ hash_search(hash_table, MultiQuery[1]) # NULL
    /\ hash_search(hash_table, MultiQuery[2]) = NULL
    /\ out.res.documents = <<>>

\* ------------------------------------------------------------ C5

\* the sum over the query positions i.. of document d's frequency for that word
RECURSIVE ScoreFrom(_, _)
ScoreFrom(d, i) ==
    IF i > Len(MultiQuery) THEN 0
    ELSE OccurrenceFreq(MultiQuery[i], d) + ScoreFrom(d, i + 1)

\* C5: the combined score of every returned document is the sum, over the query
\* words, of the document's frequency in that word's occurrence list.
C5_ScoreIsSum ==
    (out.op = "multi" /\ ~out.res.notfound) =>
        \A k \in DOMAIN out.res.documents :
            out.res.documents[k].score = ScoreFrom(out.res.documents[k].doc_id, 1)

\* a returned document that holds one of two query words twice
C5_Witness ==
    /\ out.op = "multi" /\ ~out.res.notfound /\ Len(out.arg) = 2
    /\ \E k \in DOMAIN out.res.documents : out.res.documents[k].score >= 3

\* ------------------------------------------------------------ C6

\* C6: the documents of a multi_keyword_search come in strictly increasing
\* document id order (so none comes twice).
C6_IncreasingIds ==
    out.op = "multi" =>
        \A j, k \in DOMAIN out.res.documents :
            j < k => out.res.documents[j].doc_id < out.res.documents[k].doc_id

\* two documents are returned
C6_Witness == out.op = "multi" /\ Len(out.res.documents) >= 2

\* ------------------------------------------------------------ C7

\* C7: the documents of a multi_keyword_search are ranked by combined score: a
\* document with a higher score is listed before a document with a lower one.
C7_RankedByScore ==
    out.op = "multi" =>
        \A j, k \in DOMAIN out.res.documents :
            j < k => out.res.documents[j].score >= out.res.documents[k].score

\* ------------------------------------------------------------ C8

\* the indexed words that start with the normalized prefix of the last prefix search
Matching ==
    LET p == normalize_word(out.arg) IN {w \in IndexedWords : IsPrefixOf(p, w)}

\* C8: every (word, f) a prefix search returns is such that word starts with the
\* normalized prefix, word is an indexed word with an entry in the Lookup Index,
\* f is that word's total_freq, and no word is returned twice.
C8_PrefixSound ==
    out.op \in {"prefix", "search_prefix"} =>
        LET ws == out.res.words IN
        /\ {ws[k].word : k \in DOMAIN ws} \subseteq Matching
        /\ \A k \in DOMAIN ws :
              LET n == hash_search(hash_table, ws[k].word)
              IN n # NULL /\ ws[k].frequency = nodes[n].total_freq
        /\ \A j, k \in DOMAIN ws : ws[j].word = ws[k].word => j = k

\* a non-empty prefix that some indexed words have and others do not
C8_Witness ==
    /\ out.op = "prefix" /\ normalize_word(out.arg) # <<>>
    /\ Len(out.res.words) >= 2
    /\ Matching # IndexedWords

\* ------------------------------------------------------------ C9

\* C9: when at most PREFIX_CAP indexed words start with the normalized prefix (the
\* zero-length prefix included), prefix_search returns every one of them.
C9_PrefixComplete ==
    (out.op = "prefix" /\ Cardinality(Matching) <= PREFIX_CAP) =>
        /\ Matching \subseteq {out.res.words[k].word : k \in DOMAIN out.res.words}
        /\ Matching # {} => out.res.found

\* the zero-length prefix on an engine of a few words from two documents
C9_Witness ==
    /\ out.op = "prefix" /\ normalize_word(out.arg) = <<>>
    /\ doc_count = 2 /\ Cardinality(IndexedWords) >= 4
    /\ Len(out.res.words) = Cardinality(IndexedWords)

\* ------------------------------------------------------------ C10

\* C10 as stated, for every prefix search of the repository: no prefix search
\* returns more than PREFIX_CAP words, and when more indexed words share the
\* prefix the result is the first PREFIX_CAP entries of the uncapped pre-order
\* enumeration.  search_prefix of searchEngine.c has no cap.
C10_EveryPrefixSearchCapped ==
    out.op \in {"prefix", "search_prefix"} =>
        /\ Len(out.res.words) <= PREFIX_CAP
        /\ Cardinality(Matching) > PREFIX_CAP =>
              out.res.words = SubSeq(search_prefix(nodes, out.arg).words, 1, PREFIX_CAP)

\* C10 (amended): the prefix command of searchCLI.c (output_prefix_result) never
\* returns more than PREFIX_CAP words; when more indexed words share the prefix,
\* the result is the first PREFIX_CAP entries of the uncapped pre-order
\* enumeration (trie_prefix_helper from the prefix's node), and the last call of
\* the traversal is the one that collected result PREFIX_CAP.
C10_CapStopsTraversal ==
    out.op = "prefix" =>
        /\ Len(out.res.words) <= PREFIX_CAP
        /\ Cardinality(Matching) > PREFIX_CAP =>
              /\ out.res.words = SubSeq(search_prefix(nodes, out.arg).words, 1, PREFIX_CAP)
              /\ out.res.calls[Len(out.res.calls)] = out.res.words[PREFIX_CAP].word

\* more than PREFIX_CAP indexed words share a non-empty prefix
C10_Witness ==
    /\ out.op = "prefix" /\ normalize_word(out.arg) # <<>>
    /\ Cardinality(Matching) > PREFIX_CAP
    /\ Len(out.res.words) = PREFIX_CAP

\* ------------------------------------------------------------ C11

\* C11: word_frequency and keyword_search of a word whose normalized form was
\* never indexed (an empty or one-character normalized form included) do not
\* fault and report found = false with total_freq 0 and an empty per-document
\* list, in every engine state.
C11_NotFoundNeverFaults ==
    (out.op \in {"freq", "search", "fault"} /\ normalize_word(out.arg) \notin IndexedWords) =>
        /\ out.op # "fault"
        /\ ~out.res.found
        /\ out.op = "freq" => (out.res.total_freq = 0 /\ out.res.documents = <<>>)
        /\ out.op = "search" => out.res.results = <<>>

\* ------------------------------------------------------------ C12

\* the nodes along the path of p from the root: Reach(p)[k] is the node of the
\* first k characters of p, NULL from the first character that has no child
Reach(p) ==
    LET f[k \in 0..Len(p)] ==
            IF k = 0 THEN trie_root
            ELSE IF f[k - 1] # NULL /\ (p[k] - 97) \in DOMAIN nodes[f[k - 1]].children
                 THEN nodes[f[k - 1]].children[p[k] - 97]
                 ELSE NULL
    IN f

\* some character of p has no child along the descent from the root
MissingChild(p) == \E k \in 1..Len(p) : Reach(p)[k - 1] # NULL /\ Reach(p)[k] = NULL

\* C12: a prefix search reports found = false, with an empty word list, exactly
\* when some character of the normalized prefix has no child along the descent
\* from the root; otherwise it reports found = true.
C12_FoundIffPath ==
    out.op \in {"prefix", "search_prefix"} =>
        LET p == normalize_word(out.arg) IN
        /\ out.res.found <=> ~MissingChild(p)
        /\ ~out.res.found => out.res.words = <<>>

\* the first two characters of the prefix have their nodes, the third has none
C12_Witness ==
    /\ out.op = "prefix" /\ ~out.res.found
    /\ Len(normalize_word(out.arg)) = 3
    /\ Reach(normalize_word(out.arg))[2] # NULL

\* ------------------------------------------------------------ C13

\* C13: the k-th index_text call (from 0) returns document id k; the document list
\* always holds exactly the ids 0..doc_count-1, each once; and a Document, once
\* registered, stays in the list with its id and filename (no id is given to
\* another document).
C13_IdsInOrder ==
    /\ [](/\ out.op = "index_text" => out.doc_id = Len(texts) - 1
          /\ Len(documents) = doc_count
          /\ {documents[i].id : i \in DOMAIN documents} = 0..(doc_count - 1))
    /\ [][\A i \in DOMAIN documents : \E j \in DOMAIN documents' :
              /\ documents'[j].id = documents[i].id
              /\ documents'[j].filename = documents[i].filename
              /\ documents'[j].word_count = documents[i].word_count]_vars

\* the second index_text call has returned id 1
C13_Witness ==
    /\ out.op = "index_text" /\ out.doc_id = 1
    /\ Len(documents) = 2 /\ texts[1] # texts[2]

\* ------------------------------------------------------------ C14

\* C14: after any sequence of index_text calls the root is not terminal, no child
\* of the root (a node at depth 1) is terminal, neither holds an occurrence entry,
\* and the Lookup Index has no key shorter than 2 characters.
C14_NoShortWords ==
    LET shallow == {trie_root} \cup
                   {nodes[trie_root].children[c] : c \in DOMAIN nodes[trie_root].children}
    IN /\ \A n \in shallow : ~nodes[n].is_end /\ nodes[n].doc_list = <<>>
       /\ \A w \in HashWords : Len(w) >= 2

\* "a1c aid I a" is indexed: its tokens "I" and "a" normalize to one character;
\* the node of "a" exists (for "ac" and "aid") and no node was made for "i"
C14_Witness ==
    /\ texts = <<Text2>>
    /\ \E k \in DOMAIN TokensOf[Text2] : Len(normalize_word(TokensOf[Text2][k])) = 1
    /\ 0 \in DOMAIN nodes[trie_root].children
    /\ 8 \notin DOMAIN nodes[trie_root].children
    /\ documents[1].word_count = 4

\* ------------------------------------------------------------ C15

\* the number of maximal runs of non-separator characters of a text, counted at
\* the last character of each run
Runs(text) ==
    Cardinality({i \in 1..Len(text) :
                    text[i] \notin Delims /\ (i = Len(text) \/ text[i + 1] \in Delims)})

RunsOf == [t \in Texts |-> Runs(t)]

\* C15: when index_text returns, the new document's word_count (the one it
\* reports) is the number of maximal runs of non-separator characters of the
\* text, the tokens dropped by the 2-character minimum included; add_document
\* registers the document with word_count 0, and the count of every earlier
\* document is left as it was.
C15_TokenCount ==
    /\ [](/\ out.op = "index_text" =>
                /\ out.word_count = RunsOf[texts[Len(texts)]]
                /\ documents[1].word_count = out.word_count
          /\ \A i \in DOMAIN documents :
                documents[i].word_count = RunsOf[texts[documents[i].id + 1]])
    /\ [][doc_count' # doc_count =>
              \A name \in Names :
                  add_document(documents, doc_count, name)[1].word_count = 0]_vars

\* a text with tokens that index_word drops ("a1c aid I a": 4 tokens, 2 indexed)
C15_Witness ==
    /\ out.op = "index_text" /\ texts[Len(texts)] = Text2
    /\ out.word_count = 4
    /\ Cardinality(HashWords) = 2

\* ------------------------------------------------------------ C16

\* the engine after index_text of text a as document 0 and then of text b as
\* document 1, from a fresh engine
IndexBoth(a, b) ==
    LET e0 == [nodes |-> <<create_trie_node>>, hash_table |-> <<>>]
        e1 == index_text_loop(e0, TokensOf[a], 0)
    IN IF e1.nodes = <<>> THEN e1
       ELSE index_text_loop(e1, TokensOf[b], 1)

\* a trie without its node addresses: for every node under `node`, the string
\* that leads to it with its terminal mark and its total_freq
RECURSIVE TrieView(_, _, _)
TrieView(ns, node, path) ==
    {<<path, ns[node].is_end, ns[node].total_freq>>} \cup
    UNION {TrieView(ns, ns[node].children[c], Append(path, 97 + c)) :
              c \in DOMAIN ns[node].children}

\* the words of a hash table
WordsOf(ht) == UNION {{ht[b][i].word : i \in DOMAIN ht[b]} : b \in DOMAIN ht}

\* C16: after indexing two documents on a fresh engine, the set of indexed
\* words, every word's total_freq, and the trie's shape, terminal marks and
\* totals are those that indexing the two documents in the other order gives.
C16_OrderIndependent ==
    (out.op = "index_text" /\ Len(texts) = 2) =>
        LET sw == IndexBoth(texts[2], texts[1]) IN
        /\ WordsOf(hash_table) = WordsOf(sw.hash_table)
        /\ \A w \in WordsOf(hash_table) :
              nodes[hash_search(hash_table, w)].total_freq
                  = sw.nodes[hash_search(sw.hash_table, w)].total_freq
        /\ TrieView(nodes, trie_root, <<>>) = TrieView(sw.nodes, trie_root, <<>>)

\* two different documents that share a word, one holding it twice; the other
\* order allocates the nodes in another order
C16_Witness ==
    /\ out.op = "index_text" /\ texts = <<Text1, Text3>>
    /\ nodes[hash_search(hash_table, <<97, 98>>)].total_freq = 3
    /\ nodes # IndexBoth(Text3, Text1).nodes

\* ------------------------------------------------------------ C17

\* doc1 of the main of searchEngine.c:
\* "The quick brown fox jumps over the lazy dog. The fox is very quick and clever."
DemoDoc1 ==
    <<84, 104, 101, 32, 113, 117, 105, 99, 107, 32, 98, 114, 111, 119, 110, 32, 102,
      111, 120, 32, 106, 117, 109, 112, 115, 32, 111, 118, 101, 114, 32, 116, 104, 101,
      32, 108, 97, 122, 121, 32, 100, 111, 103, 46, 32, 84, 104, 101, 32, 102, 111, 120,
      32, 105, 115, 32, 118, 101, 114, 121, 32, 113, 117, 105, 99, 107, 32, 97, 110, 100,
      32, 99, 108, 101, 118, 101, 114, 46>>

\* doc3 of the main of searchEngine.c:
\* "The brown bear lives in the forest. Bears are quick when hunting for food."
DemoDoc3 ==
    <<84, 104, 101, 32, 98, 114, 111, 119, 110, 32, 98, 101, 97, 114, 32, 108, 105, 118,
      101, 115, 32, 105, 110, 32, 116, 104, 101, 32, 102, 111, 114, 101, 115, 116, 46, 32,
      66, 101, 97, 114, 115, 32, 97, 114, 101, 32, 113, 117, 105, 99, 107, 32, 119, 104,
      101, 110, 32, 104, 117, 110, 116, 105, 110, 103, 32, 102, 111, 114, 32, 102, 111,
      111, 100, 46>>

DemoTexts == {DemoDoc1, DemoDoc3}

DemoNames == {"doc1", "animals.txt"}

\* "the", "The", "fox", "quick", "python", "bear", "brown"
DemoWords ==
    {<<116, 104, 101>>, <<84, 104, 101>>, <<102, 111, 120>>,
     <<113, 117, 105, 99, 107>>, <<112, 121, 116, 104, 111, 110>>,
     <<98, 101, 97, 114>>, <<98, 114, 111, 119, 110>>}

\* index_text(engine, name, text) on a demo document
DemoIndexText ==
    /\ Indexing
    /\ doc_count < MaxDocs
    /\ \E name \in DemoNames, text \in DemoTexts :
        LET docs1 == add_document(documents, doc_count, name)
            doc_id == (doc_count + 1) - 1
            toks == Tokens(text)
            e == index_text_loop([nodes |-> nodes, hash_table |-> hash_table], toks, doc_id)
            word_count == Len(toks)
            docs2 == set_word_count(docs1, doc_id, word_count)
        IN /\ nodes' = e.nodes
           /\ hash_table' = e.hash_table
           /\ documents' = docs2
           /\ doc_count' = doc_count + 1
           /\ texts' = Append(texts, text)
           /\ out' = [op |-> "index_text", doc_id |-> doc_id, filename |-> name,
                      word_count |-> word_count]

\* word_frequency of a demo word
DemoWordFrequency ==
    /\ Indexing
    /\ \E word \in DemoWords :
        out' = [op |-> "freq", arg |-> word,
                res |-> output_freq_result(nodes, hash_table, documents, word, <<>>)]
    /\ UNCHANGED <<nodes, hash_table, documents, doc_count, texts>>

DemoNext == DemoIndexText \/ DemoWordFrequency

\* the demo documents indexed on a fresh engine, then one word_frequency
SpecDemo == Init /\ [][DemoNext]_vars

\* C17 as stated: with the single document "doc1" of text DemoDoc1 indexed on a
\* fresh engine, word_frequency("the") reports total_freq 2.
C17_TheIsTwo ==
    (out.op = "freq" /\ out.arg = <<116, 104, 101>> /\ texts = <<DemoDoc1>>
        /\ documents[1].filename = "doc1") => out.res.total_freq = 2

\* C17 (amended): with the single document "doc1" of text DemoDoc1 indexed on a
\* fresh engine, word_frequency("the") reports found with total_freq 3, all in
\* document 0 ("The", "the", "The").
C17_TheIsThree ==
    (out.op = "freq" /\ out.arg = <<116, 104, 101>> /\ texts = <<DemoDoc1>>
        /\ documents[1].filename = "doc1") =>
        /\ out.res.found /\ out.res.total_freq = 3
        /\ out.res.documents = <<[doc_id |-> 0, filename |-> "doc1", frequency |-> 3]>>

\* word_frequency("the") after "doc1" alone was indexed
C17_Witness ==
    /\ out.op = "freq" /\ out.arg = <<116, 104, 101>>
    /\ texts = <<DemoDoc1>> /\ documents[1].filename = "doc1"
    /\ documents[1].word_count = 16

\* ------------------------------------------------------------ C18

\* C18: in every state reached by complete index_text calls, every occurrence
\* entry's document is registered with a word_count of at least the entry's
\* frequency (so never 0), show_word_frequency divides by no zero when it
\* computes tf = frequency / word_count, and keyword_search prints no
\* word_count of 0.
C18_NoDivisionByZero ==
    /\ \A n \in DOMAIN nodes : \A i \in DOMAIN nodes[n].doc_list :
          LET d == get_document(documents, nodes[n].doc_list[i].doc_id, 1) IN
          d # 0 /\ documents[d].word_count >= nodes[n].doc_list[i].frequency
                /\ nodes[n].doc_list[i].frequency >= 1
    /\ out.op = "show_freq" =>
          \A i \in DOMAIN out.res.documents : out.res.documents[i].tf.den # 0
    /\ out.op = "search" =>
          \A i \in DOMAIN out.res.results : out.res.results[i].word_count # 0

\* tf is computed for a word of one document while another document has a
\* word_count of 0
C18_Witness ==
    /\ out.op = "show_freq" /\ out.res.found
    /\ \E i \in DOMAIN documents : documents[i].word_count = 0
    /\ out.res.documents[1].tf = [num |-> 2, den |-> 3]

\* ------------------------------------------------------------ C19

\* bytes around the two letter ranges, and the byte 233 (above 127)
NormChars == {64, 65, 90, 91, 96, 97, 122, 123, 233}

\* a string is handed to normalize_word
NormInit ==
    /\ nodes = <<create_trie_node>>
    /\ hash_table = <<>>
    /\ documents = <<>>
    /\ doc_count = 0
    /\ texts = <<>>
    /\ \E s \in SeqsUpTo(NormChars, MaxLen) : out = [op |-> "string", arg |-> s]

\* normalize_word(s)
NormalizeOnce ==
    /\ out.op = "string"
    /\ \E high \in HighByteOutcomes(out.arg) :
        out' = IF high = "fault" THEN [op |-> "fault", cmd |-> "normalize", arg |-> out.arg]
               ELSE [op |-> "normalize", arg |-> out.arg,
                     res |-> normalize_word_char(out.arg, high)]
    /\ UNCHANGED <<nodes, hash_table, documents, doc_count, texts>>

\* normalize_word on the result of normalize_word(s)
NormalizeTwice ==
    /\ out.op = "normalize"
    /\ \E high \in HighByteOutcomes(out.res) :
        out' = IF high = "fault" THEN [op |-> "fault", cmd |-> "normalize", arg |-> out.res]
               ELSE [op |-> "normalize2", arg |-> out.arg, res |-> out.res,
                     res2 |-> normalize_word_char(out.res, high)]
    /\ UNCHANGED <<nodes, hash_table, documents, doc_count, texts>>

NormNext == NormalizeOnce \/ NormalizeTwice

SpecNormalize == NormInit /\ [][NormNext]_vars

\* the alphabetic characters of s, lowercased, in their order
LoweredLetters(s) ==
    LET letters == SelectSeq(s, LAMBDA c : c \in (65..90) \cup (97..122))
    IN [i \in 1..Len(letters) |-> IF letters[i] <= 90 THEN letters[i] + 32 ELSE letters[i]]

\* C19: normalize_word is total and idempotent: for every string it does not
\* fault, its result is the lowercased alphabetic characters of the string in
\* their order (lowercase ASCII letters only), and normalizing the result again
\* gives the result.
C19_NormalizeTotalIdempotent ==
    /\ out.op # "fault"
    /\ out.op \in {"normalize", "normalize2"} =>
          /\ out.res = LoweredLetters(out.arg)
          /\ \A i \in DOMAIN out.res : out.res[i] \in 97..122
    /\ out.op = "normalize2" => out.res2 = out.res

\* ------------------------------------------------------------ C20

\* a comes before b in lexicographic order: a is a proper prefix of b, or a has
\* the smaller character where they first differ
LexLess(a, b) ==
    \/ Len(a) < Len(b) /\ SubSeq(b, 1, Len(a)) = a
    \/ \E i \in 1..Min(Len(a), Len(b)) :
          /\ a[i] < b[i]
          /\ \A j \in 1..(i - 1) : a[j] = b[j]

\* C20: the words of a prefix search come in strictly ascending lexicographic
\* order, a word before its extensions (pre-order, children from 'a' to 'z'),
\* and the result is a function of the trie alone: the prefix search of
\* searchCLI.c gives the words of the one of searchEngine.c, up to PREFIX_CAP.
C20_PreOrderAscending ==
    out.op \in {"prefix", "search_prefix"} =>
        LET ws == out.res.words IN
        /\ \A k \in 1..(Len(ws) - 1) : LexLess(ws[k].word, ws[k + 1].word)
        /\ out.op = "prefix" =>
              LET all == search_prefix(nodes, out.arg).words
              IN ws = SubSeq(all, 1, Min(Len(all), PREFIX_CAP))

\* "ab" comes right before its extension "abc", and other words follow
C20_Witness ==
    /\ out.op = "prefix" /\ Len(out.res.words) >= 4
    /\ \E k \in 1..(Len(out.res.words) - 2) :
          /\ out.res.words[k].word = <<97, 98>>
          /\ out.res.words[k + 1].word = <<97, 98, 99>>

\* ------------------------------------------------------------ C21

\* words looked up in both structures: the indexed words and the normalized
\* query words, prefixes and multi-keyword words
ProbeWords ==
    IndexedWords \cup {normalize_word(q) : q \in QueryWords \cup Prefixes \cup MultiWords}

\* C21: after any sequence of index_text calls the hash table holds one entry per
\* distinct indexed word, in the bucket of the word's hash; hash_search returns
\* the terminal node trie_search returns (NULL exactly when trie_search returns
\* NULL); and the node stored for a word never changes, also in a shared bucket.
C21_HashIsTrieLookup ==
    /\ [](Indexing =>
          /\ HashWords = IndexedWords
          /\ \A b \in DOMAIN hash_table : \A i, j \in DOMAIN hash_table[b] :
                /\ hash_func(hash_table[b][i].word) = b
                /\ hash_table[b][i].word = hash_table[b][j].word => i = j
          /\ \A w \in ProbeWords :
                hash_search(hash_table, w) = trie_search(nodes, w)
          /\ \A w \in HashWords :
                /\ hash_search(hash_table, w) # NULL
                /\ nodes[hash_search(hash_table, w)].is_end)
    /\ [][\/ hash_table' = hash_table
          \/ \A w \in HashWords :
                hash_search(hash_table', w) = hash_search(hash_table, w)]_vars

\* "aid" and "daa" share a bucket and map to two different terminal nodes, and
\* a query word that is not indexed is in neither structure
C21_Witness ==
    /\ {<<97, 105, 100>>, <<100, 97, 97>>} \subseteq HashWords
    /\ hash_func(<<97, 105, 100>>) = hash_func(<<100, 97, 97>>)
    /\ Len(hash_table[hash_func(<<97, 105, 100>>)]) = 2
    /\ hash_search(hash_table, <<97, 105, 100>>) # hash_search(hash_table, <<100, 97, 97>>)
    /\ trie_search(nodes, <<122, 122>>) = NULL
    /\ out.op = "index_text"

\* ------------------------------------------------------------ C22

\* the normalized forms, of two characters or more, of the whole tokens of a text
WholeWordsOf ==
    [t \in Texts |->
        {w \in {normalize_word(TokensOf[t][k]) : k \in 1..Len(TokensOf[t])} : Len(w) >= 2}]

\* the nodes that end a word
TerminalNodes == {n \in DOMAIN nodes : nodes[n].is_end}

\* every doc_list holds a document id at most once, with a frequency of 1 or more
OneEntryPerDocument ==
    \A n \in DOMAIN nodes :
        LET list == nodes[n].doc_list IN
        /\ \A i, j \in DOMAIN list : list[i].doc_id = list[j].doc_id => i = j
        /\ \A i \in DOMAIN list : list[i].frequency >= 1

\* the entries of the hash table: a word and the trie node stored for it
HashEntries ==
    UNION {{hash_table[b][i] : i \in DOMAIN hash_table[b]} : b \in DOMAIN hash_table}

\* the document ids of a node's doc_list
DocsOf(n) == {nodes[n].doc_list[i].doc_id : i \in DOMAIN nodes[n].doc_list}

\* C22 as stated: every terminal node's doc_list holds a document id at most
\* once, every entry has a frequency of 1 or more, and the word's doc_list has
\* an entry for document d exactly when some token of d normalizes to the word.
C22_WholeWordOccurs ==
    LET entries == HashEntries IN
    /\ OneEntryPerDocument
    /\ TerminalNodes = {e.trie_node : e \in entries}
    /\ \A e \in entries : DocsOf(e.trie_node) \subseteq DocIds
    /\ \A d \in DocIds :
          {e.word : e \in {x \in entries : d \in DocsOf(x.trie_node)}}
              = WholeWordsOf[texts[d + 1]]

\* C22 (amended): every terminal node's doc_list holds a document id at most
\* once, every entry has a frequency of 1 or more, and the word's doc_list has
\* an entry for document d exactly when the first MAX_WORD_LEN - 1 characters of
\* some token of d normalize to the word.
C22_TruncatedWordOccurs ==
    LET entries == HashEntries IN
    /\ OneEntryPerDocument
    /\ TerminalNodes = {e.trie_node : e \in entries}
    /\ \A e \in entries : DocsOf(e.trie_node) \subseteq DocIds
    /\ \A d \in DocIds :
          {e.word : e \in {x \in entries : d \in DocsOf(x.trie_node)}}
              = IndexedWordsOf[texts[d + 1]]

\* "ab" occurs twice in document 0 and has one entry of frequency 2 there, and
\* an entry for document 1, whose only token that gives "ab" is the
\* 100-character token normalizing to "abc"
C22_Witness ==
    /\ doc_count = 2 /\ texts[1] = Text1 /\ texts[2] = Text4
    /\ OccurrenceDocs(<<97, 98>>) = {0, 1}
    /\ OccurrenceFreq(<<97, 98>>, 0) = 2
    /\ OccurrenceDocs(<<97, 98, 99>>) = {0}
    /\ <<97, 98, 99>> \in WholeWordsOf[Text4]

\* ------------------------------------------------------------ C23

\* C23: after every completed insert a trie node has is_end set exactly when its
\* doc_list is not empty, and a node without is_end has a total_freq of 0.
C23_TerminalIffOccurrences ==
    \A n \in DOMAIN nodes :
        /\ nodes[n].is_end <=> nodes[n].doc_list # <<>>
        /\ ~nodes[n].is_end => nodes[n].total_freq = 0

\* after an index_text call the node of "a" is on the path of the terminal node
\* of "ab" and is not terminal itself
C23_Witness ==
    /\ out.op = "index_text"
    /\ HasChild(nodes, trie_root, 0)
    /\ LET a == nodes[trie_root].children[0] IN
       /\ ~nodes[a].is_end /\ nodes[a].doc_list = <<>>
       /\ HasChild(nodes, a, 1)
       /\ nodes[nodes[a].children[1]].is_end
       /\ nodes[nodes[a].children[1]].doc_list # <<>>
    /\ ~nodes[trie_root].is_end

\* ------------------------------------------------------------ C24

\* the document ids stored in the doc_lists of the trie
StoredDocIds ==
    UNION {{nodes[n].doc_list[i].doc_id : i \in DOMAIN nodes[n].doc_list} : n \in DOMAIN nodes}

\* the filenames printed by the last query
PrintedFilenames ==
    IF out.op \in {"freq", "show_freq", "multi"}
    THEN {out.res.documents[i].filename : i \in DOMAIN out.res.documents}
    ELSE IF out.op = "search"
    THEN {out.res.results[i].filename : i \in DOMAIN out.res.results}
    ELSE {}

\* the indices at which the last search_multi wrote doc_matches and doc_scores
MultiIndices ==
    UNION {LET node == hash_search(hash_table, MultiQuery[i]) IN
           IF node = NULL THEN {}
           ELSE {nodes[node].doc_list[j].doc_id : j \in DOMAIN nodes[node].doc_list} :
           i \in DOMAIN MultiQuery}

\* C24: every doc_id stored in a doc_list is a d with 0 <= d < doc_count that
\* get_document finds; no query prints the fallback filename; and search_multi
\* writes its doc_count-sized arrays at indices 0..doc_count-1 only.
C24_DocIdsRegistered ==
    /\ StoredDocIds \subseteq 0..(doc_count - 1)
    /\ \A d \in StoredDocIds : get_document(documents, d, 1) # 0
    /\ PrintedFilenames \cap {"unknown", "Unknown"} = {}
    /\ out.op = "multi" => MultiIndices \subseteq 0..(doc_count - 1)

\* a search_multi over two documents wrote both array slots and printed both
\* documents under their registered filename
C24_Witness ==
    /\ out.op = "multi" /\ doc_count = 2 /\ Len(out.arg) = 2
    /\ MultiIndices = {0, 1}
    /\ Len(out.res.documents) = 2
    /\ PrintedFilenames = {"uploaded_doc"}

\* ------------------------------------------------------------ C25

\* index_text taken one statement at a time, with a query running between the
\* statements.  The source has one thread and no lock; the lock is the
\* engine-wide mutual exclusion of the specification's concurrency section: a
\* run either uses it for every index_text and query (out.locked) or has none.
\* out holds the position of the index_text in flight (pc and its locals), the
\* lock, and what the last query read.

\* "ab ab"
StepText1 == <<97, 98, 32, 97, 98>>
\* "ab abc"
StepText2 == <<97, 98, 32, 97, 98, 99>>

StepTexts == {StepText1, StepText2}

\* query words: "ab", "abc"
StepQueryWords == {<<97, 98>>, <<97, 98, 99>>}

\* the first statements of add_doc_occurrence: frequency++ of the entry found,
\* or the new DocNode of frequency 1 linked at the head of doc_list
add_doc_occurrence_entry(node, doc_id) ==
    LET i == find_doc(node.doc_list, doc_id, 1) IN
    IF i # 0
    THEN [node EXCEPT !.doc_list[i].frequency = @ + 1]
    ELSE [node EXCEPT !.doc_list = <<[doc_id |-> doc_id, frequency |-> 1]>> \o @]

\* the last statement of add_doc_occurrence left out
add_doc_occurrence_total_Skip(node) == node

\* the last statement of add_doc_occurrence on either branch: node->total_freq++
add_doc_occurrence_total(node) == [node EXCEPT !.total_freq = @ + 1]

\* the lock is free, or the run has no lock
lock_free == out.locked => out.lock = "free"

\* the position record with the lock taken or released, in a run that has one
with_lock(o, v) == IF o.locked THEN [o EXCEPT !.lock = v] ELSE o

StepInit ==
    /\ nodes = <<create_trie_node>>
    /\ hash_table = <<>>
    /\ documents = <<>>
    /\ doc_count = 0
    /\ texts = <<>>
    /\ \E locked \in BOOLEAN :
          out = [op |-> "steps", locked |-> locked, lock |-> "free", pc |-> "idle",
                 toks |-> <<>>, k |-> 0, doc_id |-> 0, word_count |-> 0,
                 normalized |-> <<>>, curr |-> NULL, i |-> 0, observed |-> <<>>]

\* index_text up to its first strtok: add_document, doc_id = doc_count - 1
StepIndexText ==
    /\ out.pc = "idle" /\ lock_free
    /\ doc_count < MaxDocs
    /\ \E name \in Names, text \in StepTexts :
          /\ documents' = add_document(documents, doc_count, name)
          /\ doc_count' = doc_count + 1
          /\ texts' = Append(texts, text)
          /\ out' = [with_lock(out, "held") EXCEPT
                        !.pc = "token", !.toks = Tokens(text), !.k = 1,
                        !.doc_id = (doc_count + 1) - 1, !.word_count = 0]
    /\ UNCHANGED <<nodes, hash_table>>

\* while (token): the start of index_word (copy, normalize, length test), or
\* the end of the loop
StepToken ==
    /\ out.pc = "token"
    /\ IF out.k > Len(out.toks)
       THEN out' = [out EXCEPT !.pc = "word_count"]
       ELSE LET normalized == normalize_word(strncpy(out.toks[out.k], MAX_WORD_LEN - 1)) IN
            IF Len(normalized) < 2
            THEN out' = [out EXCEPT !.k = @ + 1, !.word_count = @ + 1]
            ELSE out' = [out EXCEPT !.pc = "descend", !.normalized = normalized,
                                    !.curr = trie_root, !.i = 1]
    /\ UNCHANGED <<nodes, hash_table, documents, doc_count, texts>>

\* one iteration of the loop of trie_insert
StepDescend ==
    /\ out.pc = "descend" /\ out.i <= Len(out.normalized)
    /\ LET idx == out.normalized[out.i] - 97 IN
       IF idx < 0 \/ idx >= ALPHABET_SIZE
       THEN /\ nodes' = nodes
            /\ out' = [out EXCEPT !.i = @ + 1]
       ELSE IF HasChild(nodes, out.curr, idx)
       THEN /\ nodes' = nodes
            /\ out' = [out EXCEPT !.i = @ + 1, !.curr = nodes[out.curr].children[idx]]
       ELSE LET new == Len(nodes) + 1 IN
            /\ nodes' = Append([nodes EXCEPT ![out.curr].children = @ @@ (idx :> new)],
                               create_trie_node)
            /\ out' = [out EXCEPT !.i = @ + 1, !.curr = new]
    /\ UNCHANGED <<hash_table, documents, doc_count, texts>>

\* curr->is_end = 1 after the loop of trie_insert
StepIsEnd ==
    /\ out.pc = "descend" /\ out.i > Len(out.normalized)
    /\ nodes' = [nodes EXCEPT ![out.curr].is_end = TRUE]
    /\ out' = [out EXCEPT !.pc = "occurrence"]
    /\ UNCHANGED <<hash_table, documents, doc_count, texts>>

\* add_doc_occurrence before its total_freq++
StepOccurrence ==
    /\ out.pc = "occurrence"
    /\ nodes' = [nodes EXCEPT ![out.curr] = add_doc_occurrence_entry(@, out.doc_id)]
    /\ out' = [out EXCEPT !.pc = "total_freq"]
    /\ UNCHANGED <<hash_table, documents, doc_count, texts>>

\* node->total_freq++ and the return of add_doc_occurrence and trie_insert
StepTotalFreq ==
    /\ out.pc = "total_freq"
    /\ nodes' = [nodes EXCEPT ![out.curr] = add_doc_occurrence_total(@)]
    /\ out' = [out EXCEPT !.pc = "hash_insert"]
    /\ UNCHANGED <<hash_table, documents, doc_count, texts>>

\* hash_insert(engine, normalized, node), word_count++ and the next strtok
StepHashInsert ==
    /\ out.pc = "hash_insert"
    /\ hash_table' = hash_insert(hash_table, out.normalized, out.curr)
    /\ out' = [out EXCEPT !.pc = "token", !.k = @ + 1, !.word_count = @ + 1]
    /\ UNCHANGED <<nodes, documents, doc_count, texts>>

\* the end of index_text: the Document's word_count is set
StepWordCount ==
    /\ out.pc = "word_count"
    /\ documents' = set_word_count(documents, out.doc_id, out.word_count)
    /\ out' = [with_lock(out, "free") EXCEPT !.pc = "idle"]
    /\ UNCHANGED <<nodes, hash_table, doc_count, texts>>

\* output_freq_result(engine, word) run between two statements of index_text
\* (under the lock: only when no index_text holds it)
StepQuery ==
    /\ lock_free
    /\ \E word \in StepQueryWords :
          out' = [out EXCEPT !.observed =
                     <<output_freq_result(nodes, hash_table, documents, word, <<>>)>>]
    /\ UNCHANGED <<nodes, hash_table, documents, doc_count, texts>>

StepNext ==
    \/ StepIndexText
    \/ StepToken
    \/ StepDescend
    \/ StepIsEnd
    \/ StepOccurrence
    \/ StepTotalFreq
    \/ StepHashInsert
    \/ StepWordCount
    \/ StepQuery

SpecSteps == StepInit /\ [][StepNext]_vars

\* C25: add_doc_occurrence is not atomic (between its entry update and its
\* total_freq++ the node's total_freq is not the sum of its frequencies, and a
\* query run there reads both); when index_text and the queries each hold the
\* engine-wide lock for their whole duration, every query reads a total_freq
\* that is the sum of the frequencies it reads, and the trie is consistent
\* whenever the lock is free.
C25_LockedQueriesConsistent ==
    /\ out.pc = "total_freq" =>
          nodes[out.curr].total_freq # SumFrequency(nodes[out.curr].doc_list)
    /\ out.locked =>
          /\ out.observed # <<>> =>
                out.observed[1].total_freq = SumFrequency(out.observed[1].documents)
          /\ out.lock = "free" =>
                \A n \in DOMAIN nodes :
                    nodes[n].total_freq = SumFrequency(nodes[n].doc_list)

\* without the lock a query of "ab", run while the insert of "ab" is between
\* its frequency update and its total_freq++, has read a total_freq that is
\* not the sum of the frequencies it read
C25_Witness ==
    /\ ~out.locked /\ out.pc = "total_freq" /\ out.normalized = <<97, 98>>
    /\ out.observed # <<>>
    /\ out.observed[1].found /\ out.observed[1].word = <<97, 98>>
    /\ out.observed[1].total_freq # SumFrequency(out.observed[1].documents)
    /\ out.observed[1].total_freq = nodes[out.curr].total_freq

\* ------------------------------------------------------------ C26

\* C26: a query (word frequency, keyword search, prefix search, multi-keyword
\* search, with the hash and trie lookups they make) leaves the trie nodes with
\* their terminal marks, doc_lists and total_freq, the hash table, the
\* documents and doc_count as they were, whether it finds something or not.
C26_QueriesChangeNothing ==
    [][out'.op \in {"freq", "search", "show_freq", "prefix", "search_prefix", "multi"}
          => UNCHANGED <<nodes, hash_table, documents, doc_count>>]_vars

\* a prefix search that found nothing on an engine holding two documents
C26_Witness ==
    /\ out.op = "prefix" /\ ~out.res.found
    /\ Len(normalize_word(out.arg)) >= 2
    /\ doc_count = 2 /\ hash_table # <<>>

\* ------------------------------------------------------------ C27

\* node n or a node below it ends a word
RECURSIVE HasTerminal(_)
HasTerminal(n) ==
    \/ nodes[n].is_end
    \/ \E c \in DOMAIN nodes[n].children : HasTerminal(nodes[n].children[c])

\* C27: every trie node other than the root has a terminal node in its subtree
\* and every childless one is terminal; a prefix search whose normalized
\* prefix is not empty and that reports found returns one word or more; found
\* with no word happens only for a prefix that normalizes to the empty string,
\* on an engine with no indexed word.
C27_NoDeadBranch ==
    /\ \A n \in DOMAIN nodes \ {trie_root} :
          /\ HasTerminal(n)
          /\ DOMAIN nodes[n].children = {} => nodes[n].is_end
    /\ (out.op \in {"prefix", "search_prefix"} /\ out.res.found) =>
          /\ Len(out.res.prefix) > 0 => Len(out.res.words) >= 1
          /\ out.res.words = <<>> =>
                /\ out.res.prefix = <<>>
                /\ HashWords = {}
                /\ TerminalNodes = {}

\* the prefix "a" was found at a node that ends no word and the search
\* returned the words below it
C27_Witness ==
    /\ out.op = "prefix" /\ out.res.found /\ out.res.prefix = <<97>>
    /\ ~nodes[nodes[trie_root].children[0]].is_end
    /\ Len(out.res.words) >= 2

\* found with no word: the prefix "1" on an engine whose one document has no
\* indexed word
C27_FoundNoWord ==
    /\ out.op = "prefix" /\ out.res.found /\ out.res.words = <<>>
    /\ out.arg = <<49>> /\ doc_count = 1

\* ------------------------------------------------------------ C28

\* C28: search_multi with no keyword (count = 0) prints every registered
\* document, by increasing id, each with score 0; with no document it prints none.
C28_EmptyQueryAllDocuments ==
    (out.op = "multi" /\ out.arg = <<>>) =>
        /\ ~out.res.notfound
        /\ Len(out.res.documents) = doc_count
        /\ \A k \in DOMAIN out.res.documents :
              /\ out.res.documents[k].doc_id = k - 1
              /\ out.res.documents[k].score = 0
              /\ out.res.documents[k].filename =
                    documents[get_document(documents, k - 1, 1)].filename

\* a search_multi with no keyword on an engine of two documents with indexed words
C28_Witness ==
    /\ out.op = "multi" /\ out.arg = <<>>
    /\ doc_count = 2 /\ Len(out.res.documents) = 2
    /\ HashWords # {}

\* a search_multi with no keyword on an engine with no document printed none
C28_NoDocument ==
    /\ out.op = "multi" /\ out.arg = <<>>
    /\ doc_count = 0 /\ out.res.documents = <<>>

====
